---- MODULE Spec2Model ----
(***************************************************************************)
(* Model of filter_stocks (src/stock_recommendation.py): a cascade of four *)
(* threshold filters over a table of stock indicators, followed by a       *)
(* projection onto five columns and the removal of duplicate rows.         *)
(*                                                                         *)
(* String values of the source are written in ASCII:                       *)
(*   risk_preference  "Averse" / "Neutral" / "Seeking"  (lines 13, 16, 20) *)
(*   marital_status   "Married" / "Single"              (lines 35, 38)     *)
(*   column '股票代码' (stock code) is the field  code     *)
(* A row of the input table carries one more column, other, that the       *)
(* function never reads and the projection of line 50 drops.               *)
(***************************************************************************)
EXTENDS Integers, Sequences, FiniteSets, TLC

\* ---------------------------------------------------------------- bounds
MaxLen == 3       \* longest multi-row input table
MaxCalls == 2     \* calls of filter_stocks on the same table and profile

\* ------------------------------------------------------- input universes
KDJValues == {29, 30, 70, 71}
RSIValues == {29, 30, 49, 50, 51, 70, 71}

\* every combination of indicator values around the thresholds
WideRows ==
    [code : {"001"}, K : KDJValues, D : KDJValues, J : KDJValues,
     RSI : RSIValues, other : {"x"}]

\* rows used to build tables of several rows: equal rows, rows that differ
\* only in the unread column, rows that share a code, rows of another code
NarrowRows ==
    { [code |-> "002", K |-> 50, D |-> 50, J |-> 50, RSI |-> 50, other |-> "x"],
      [code |-> "002", K |-> 50, D |-> 50, J |-> 50, RSI |-> 50, other |-> "y"],
      [code |-> "002", K |-> 50, D |-> 50, J |-> 50, RSI |-> 60, other |-> "x"],
      [code |-> "003", K |-> 50, D |-> 50, J |-> 50, RSI |-> 40, other |-> "x"],
      [code |-> "003", K |-> 80, D |-> 80, J |-> 80, RSI |-> 60, other |-> "x"] }

SeqsUpTo(S, n) == UNION { [1..k -> S] : k \in 0..n }

Tables == SeqsUpTo(NarrowRows, MaxLen) \cup { <<r>> : r \in WideRows }

RiskPreferences == {"Averse", "Neutral", "Seeking", "unknown"}
AssetSizes == {-1, 99999, 100000, 999999, 1000000}
MaritalStatuses == {"Married", "Single", "other"}
ExpectedReturns == {4, 5, 9, 10}

NoResult == <<"none">>

VARIABLES
    df,               \* the input table (a sequence of rows)
    risk_preference, asset_size, marital_status, expected_return,
    filtered,         \* the local variable filtered
    pc,               \* position in filter_stocks
    result,           \* the returned table, NoResult before the return
    raised,           \* the exception raised, "" when none
    calls,            \* number of the current call
    df0,              \* the table as it was before the first call
    stages,           \* candidate tables: the input, then after each stage
    prevResult        \* what the previous call returned

vars == <<df, risk_preference, asset_size, marital_status, expected_return,
          filtered, pc, result, raised, calls, df0, stages, prevResult>>

args == <<risk_preference, asset_size, marital_status, expected_return>>

\* ------------------------------------------------------------- helpers
\* pandas Series.between(left, right), inclusive="both"
Between(x, left, right) == left <= x /\ x <= right

\* df[mask], the rows that satisfy the mask in their order, is SelectSeq

\* line 15 / 18-19 / 22: the mask of the risk-preference stage
RiskMaskNoD(r, rp) ==
    IF rp = "Averse"
    THEN r.K < 30 /\ r.J < 30 /\ r.RSI < 50
    ELSE IF rp = "Neutral"
    THEN Between(r.K, 30, 70) /\ Between(r.J, 30, 70) /\ Between(r.RSI, 30, 70)
    ELSE r.K > 70 /\ r.J > 70 /\ r.RSI > 50

RiskMask(r, rp) ==
    IF rp = "Averse"
    THEN r.K < 30 /\ r.D < 30 /\ r.J < 30 /\ r.RSI < 50
    ELSE IF rp = "Neutral"
    THEN Between(r.K, 30, 70) /\ Between(r.D, 30, 70) /\
         Between(r.J, 30, 70) /\ Between(r.RSI, 30, 70)
    ELSE r.K > 70 /\ r.D > 70 /\ r.J > 70 /\ r.RSI > 50

\* lines 27-32
AssetMaskOffByOne(r, a) ==
    IF a < 100000 THEN r.RSI <= 30
    ELSE IF 100000 <= a /\ a < 1000000 THEN Between(r.RSI, 30, 70)
    ELSE r.RSI > 70

AssetMask(r, a) ==
    IF a < 100000 THEN r.RSI < 30
    ELSE IF 100000 <= a /\ a < 1000000 THEN Between(r.RSI, 30, 70)
    ELSE r.RSI > 70

\* lines 35-40: no else branch, any other status keeps every row
MaritalMaskElse(r, m) ==
    IF m = "Married" THEN r.RSI < 50
    ELSE r.RSI >= 50

MaritalMask(r, m) ==
    IF m = "Married" THEN r.RSI < 50
    ELSE IF m = "Single" THEN r.RSI >= 50
    ELSE TRUE

\* lines 43-48
ReturnMask(r, e) ==
    IF e < 5 THEN r.RSI < 30
    ELSE IF 5 <= e /\ e < 10 THEN Between(r.RSI, 30, 70)
    ELSE r.RSI > 70

\* line 50: filtered[['code', 'K', 'D', 'J', 'RSI']]
ProjectRowSwapped(r) ==
    [code |-> r.code, K |-> r.D, D |-> r.K, J |-> r.J, RSI |-> r.RSI]

ProjectRow(r) ==
    [code |-> r.code, K |-> r.K, D |-> r.D, J |-> r.J, RSI |-> r.RSI]

Project(t) == [i \in 1..Len(t) |-> ProjectRow(t[i])]

\* line 50: DataFrame.drop_duplicates(), keep="first"
RECURSIVE DropDuplicatesKeepLast(_)
DropDuplicatesKeepLast(t) ==
    IF t = <<>> THEN <<>>
    ELSE LET rest == DropDuplicatesKeepLast(Tail(t))
         IN  IF \E i \in 1..Len(rest) : rest[i] = Head(t)
             THEN rest ELSE <<Head(t)>> \o rest

RECURSIVE DropDuplicatesByCode(_)
DropDuplicatesByCode(t) ==
    IF t = <<>> THEN <<>>
    ELSE LET init == DropDuplicatesByCode(SubSeq(t, 1, Len(t) - 1))
             last == t[Len(t)]
         IN  IF \E i \in 1..Len(init) : init[i].code = last.code
             THEN init ELSE Append(init, last)

RECURSIVE DropDuplicates(_)
DropDuplicates(t) ==
    IF t = <<>> THEN <<>>
    ELSE LET init == DropDuplicates(SubSeq(t, 1, Len(t) - 1))
             last == t[Len(t)]
         IN  IF \E i \in 1..Len(init) : init[i] = last
             THEN init ELSE Append(init, last)

\* ----------------------------------------------------------------- Init
Init ==
    /\ df \in Tables
    /\ risk_preference \in RiskPreferences
    /\ asset_size \in AssetSizes
    /\ marital_status \in MaritalStatuses
    /\ expected_return \in ExpectedReturns
    /\ filtered = <<>>
    /\ pc = "stage1"
    /\ result = NoResult
    /\ raised = ""
    /\ calls = 1
    /\ df0 = df
    /\ stages = <<df>>
    /\ prevResult = NoResult

\* -------------------------------------------------------------- actions
\* lines 13-24
Stage1InPlace ==
    /\ pc = "stage1"
    /\ IF risk_preference \in {"Averse", "Neutral", "Seeking"}
       THEN /\ filtered' = SelectSeq(df, LAMBDA r : RiskMask(r, risk_preference))
            /\ df' = filtered'
            /\ stages' = Append(stages, filtered')
            /\ pc' = "stage2"
            /\ raised' = raised
       ELSE /\ raised' = "ValueError"
            /\ pc' = "raised"
            /\ UNCHANGED <<filtered, stages, df>>
    /\ UNCHANGED <<args, result, calls, df0, prevResult>>

Stage1NoRaise ==
    /\ pc = "stage1"
    /\ filtered' = SelectSeq(df, LAMBDA r : RiskMask(r, risk_preference))
    /\ stages' = Append(stages, filtered')
    /\ pc' = "stage2"
    /\ UNCHANGED <<df, args, result, raised, calls, df0, prevResult>>

Stage1 ==
    /\ pc = "stage1"
    /\ IF risk_preference \in {"Averse", "Neutral", "Seeking"}
       THEN /\ filtered' = SelectSeq(df, LAMBDA r : RiskMask(r, risk_preference))
            /\ stages' = Append(stages, filtered')
            /\ pc' = "stage2"
            /\ raised' = raised
       ELSE /\ raised' = "ValueError"
            /\ pc' = "raised"
            /\ UNCHANGED <<filtered, stages>>
    /\ UNCHANGED <<df, args, result, calls, df0, prevResult>>

\* lines 27-32
Stage2 ==
    /\ pc = "stage2"
    /\ filtered' = SelectSeq(filtered, LAMBDA r : AssetMask(r, asset_size))
    /\ stages' = Append(stages, filtered')
    /\ pc' = "stage3"
    /\ UNCHANGED <<df, args, result, raised, calls, df0, prevResult>>

\* lines 35-40
Stage3FromDf ==
    /\ pc = "stage3"
    /\ filtered' = SelectSeq(df, LAMBDA r : MaritalMask(r, marital_status))
    /\ stages' = Append(stages, filtered')
    /\ pc' = "stage4"
    /\ UNCHANGED <<df, args, result, raised, calls, df0, prevResult>>

Stage3 ==
    /\ pc = "stage3"
    /\ filtered' = SelectSeq(filtered, LAMBDA r : MaritalMask(r, marital_status))
    /\ stages' = Append(stages, filtered')
    /\ pc' = "stage4"
    /\ UNCHANGED <<df, args, result, raised, calls, df0, prevResult>>

\* lines 43-48
Stage4 ==
    /\ pc = "stage4"
    /\ filtered' = SelectSeq(filtered, LAMBDA r : ReturnMask(r, expected_return))
    /\ stages' = Append(stages, filtered')
    /\ pc' = "return"
    /\ UNCHANGED <<df, args, result, raised, calls, df0, prevResult>>

\* line 50
ReturnFailsOnEmpty ==
    /\ pc = "return"
    /\ IF filtered = <<>>
       THEN /\ raised' = "IndexError"
            /\ pc' = "raised"
            /\ result' = result
       ELSE /\ result' = DropDuplicates(Project(filtered))
            /\ pc' = "done"
            /\ raised' = raised
    /\ UNCHANGED <<df, args, filtered, calls, df0, stages, prevResult>>

Return ==
    /\ pc = "return"
    /\ result' = DropDuplicates(Project(filtered))
    /\ pc' = "done"
    /\ UNCHANGED <<df, args, filtered, raised, calls, df0, stages, prevResult>>

\* the caller calls filter_stocks again with the same table and profile
\* (line 114; Streamlit reruns main on every interaction)
CallAgain ==
    /\ pc \in {"done", "raised"}
    /\ calls < MaxCalls
    /\ calls' = calls + 1
    /\ prevResult' = result
    /\ result' = NoResult
    /\ raised' = ""
    /\ filtered' = <<>>
    /\ stages' = <<df>>
    /\ pc' = "stage1"
    /\ UNCHANGED <<df, args, df0>>

Next ==
    \/ Stage1
    \/ Stage2
    \/ Stage3
    \/ Stage4
    \/ Return
    \/ CallAgain

Spec == Init /\ [][Next]_vars

\* ====================================================== stated properties
\* The predicates below are written from the wording of the properties, one
\* bracket at a time, and use none of the operators of the model above.
Recognised == {"Averse", "Neutral", "Seeking"}
Finished == pc = "done"
Returned == Finished /\ raised = ""

Row5(r) == <<r.code, r.K, r.D, r.J, r.RSI>>
Tuple5(x) == <<x.code, x.K, x.D, x.J, x.RSI>>
Fields5 == {"code", "K", "D", "J", "RSI"}

Low(v) == v < 30
Mid(v) == 30 <= v /\ v <= 70
High(v) == v > 70

S1(r) ==
    \/ risk_preference = "Averse" /\ r.K < 30 /\ r.D < 30 /\ r.J < 30 /\ r.RSI < 50
    \/ risk_preference = "Neutral" /\ Mid(r.K) /\ Mid(r.D) /\ Mid(r.J) /\ Mid(r.RSI)
    \/ risk_preference = "Seeking" /\ r.K > 70 /\ r.D > 70 /\ r.J > 70 /\ r.RSI > 50
S2(r) ==
    \/ asset_size < 100000 /\ Low(r.RSI)
    \/ asset_size >= 100000 /\ asset_size < 1000000 /\ Mid(r.RSI)
    \/ asset_size >= 1000000 /\ High(r.RSI)
S3(r) ==
    \/ marital_status = "Married" /\ r.RSI < 50
    \/ marital_status = "Single" /\ r.RSI >= 50
S4(r) ==
    \/ expected_return < 5 /\ Low(r.RSI)
    \/ expected_return >= 5 /\ expected_return < 10 /\ Mid(r.RSI)
    \/ expected_return >= 10 /\ High(r.RSI)

\* the rows the cascade is said to keep; an unrecognised marital status
\* contributes no constraint
Keeps(r) ==
    /\ S1(r) /\ S2(r) /\ S4(r)
    /\ marital_status \in {"Married", "Single"} => S3(r)

InputRows == { Row5(df0[i]) : i \in 1..Len(df0) }
ResultRows == { Tuple5(result[i]) : i \in 1..Len(result) }
HasFields5 == \A i \in 1..Len(result) : DOMAIN result[i] = Fields5

\* ---- C1
\* C1: with a recognised risk preference (and a marital status of Married or
\* Single), a five-field row is in the result exactly when some input row
\* with those five values satisfies the four stage predicates together.
C1_ResultIsConjunction ==
    (Returned /\ marital_status \in {"Married", "Single"}) =>
        /\ HasFields5
        /\ ResultRows =
             { Row5(df0[i]) : i \in { j \in 1..Len(df0) :
                 S1(df0[j]) /\ S2(df0[j]) /\ S3(df0[j]) /\ S4(df0[j]) } }

\* a table where one row passes all four stages and another is rejected
C1_Witness ==
    /\ Returned /\ marital_status = "Single" /\ risk_preference = "Seeking"
    /\ Len(df0) = 3 /\ Len(result) = 1
    /\ \E i \in 1..Len(df0) : ~ S1(df0[i])

\* ---- C2
\* C2: whenever filter_stocks returns, every row of the result is the
\* five-column projection of some row of the input table.
C2_ResultSubsetOfInput ==
    Returned => (HasFields5 /\ ResultRows \subseteq InputRows)

\* a non-empty result whose row has K, D and J all different
C2_Witness ==
    /\ Returned /\ Len(result) = 1
    /\ result[1].K # result[1].D /\ result[1].D # result[1].J

\* ---- C3
\* C3: an unrecognised risk preference makes the call fail with ValueError
\* and return nothing, whatever the other arguments and the table are, and
\* the call fails under no other input.
C3_ValueErrorIffUnknownRisk ==
    /\ (pc \in {"done", "raised"}) =>
          ((pc = "raised") <=> (risk_preference \notin Recognised))
    /\ (pc = "raised") => (raised = "ValueError" /\ result = NoResult)
    /\ (raised # "") => (pc = "raised")
    /\ (risk_preference \notin Recognised) => (pc \in {"stage1", "raised"})

\* the call failed on an empty table with otherwise valid arguments
C3_Witness ==
    /\ pc = "raised" /\ raised = "ValueError" /\ df0 = <<>>
    /\ risk_preference = "unknown" /\ marital_status = "Married"

\* ---- C4
\* C4: the result never holds two rows equal in all five fields; every row
\* value that passes the stages appears exactly once, so equal passing rows
\* collapse to one and passing rows that share a code but differ in an
\* indicator all remain.
C4_UniqueRows ==
    Returned =>
        /\ \A i, j \in 1..Len(result) : i # j => result[i] # result[j]
        /\ \A k \in 1..Len(df0) : Keeps(df0[k]) =>
              Cardinality({ i \in 1..Len(result) :
                              Tuple5(result[i]) = Row5(df0[k]) }) = 1

\* two equal passing rows and a passing row of the same code with another RSI
C4_Witness ==
    /\ Returned /\ Len(df0) = 3 /\ Len(result) = 2
    /\ \E i, j \in 1..Len(df0) : i # j /\ df0[i] = df0[j] /\ Keeps(df0[i])
    /\ result[1].code = result[2].code /\ result[1].RSI # result[2].RSI

\* ---- C5
\* C5: on an empty table and with a recognised risk preference the call
\* returns an empty result and raises nothing.
C5_EmptyTable ==
    (df0 = <<>> /\ risk_preference \in Recognised) =>
        /\ raised = "" /\ pc # "raised"
        /\ Finished => result = <<>>

C5_Witness ==
    /\ Returned /\ df0 = <<>> /\ result = <<>>
    /\ asset_size = -1 /\ marital_status = "other"

\* ---- C6
\* C6: the candidate table after each stage is a sub-table of the one before
\* it (input, stage 1, stage 2, stage 3, stage 4), so a row removed by a
\* stage never comes back and the stage-1 survivors contain the final ones.
RECURSIVE IsSubSeq(_, _)
IsSubSeq(a, b) ==
    IF a = <<>> THEN TRUE
    ELSE IF b = <<>> THEN FALSE
    ELSE IF Head(a) = Head(b) THEN IsSubSeq(Tail(a), Tail(b))
    ELSE IsSubSeq(a, Tail(b))

C6_MonotonicNarrowing ==
    /\ stages[1] = df0
    /\ \A i \in 1..(Len(stages) - 1) : IsSubSeq(stages[i + 1], stages[i])
    /\ Len(stages) >= 2 => IsSubSeq(filtered, stages[2])
    /\ Returned => Len(stages) = 5 /\ ResultRows \subseteq
                      { Row5(stages[2][i]) : i \in 1..Len(stages[2]) }

\* stage 1 removed a row, a later stage removed another, one row survived
C6_Witness ==
    /\ Returned /\ Len(stages) = 5
    /\ Len(stages[1]) = 3 /\ Len(stages[2]) = 2 /\ Len(stages[5]) = 1

\* ---- C7
\* C7: a call leaves the input table as it was, and a second call with the
\* same table and profile returns what the first one returned.
C7_Pure ==
    /\ df = df0
    /\ (Finished /\ calls > 1) => result = prevResult

C7_Witness ==
    /\ Finished /\ calls = 2 /\ Len(df0) = 3 /\ Len(result) = 1
    /\ result = prevResult

\* ---- C8
\* C8: with a marital status that is neither Married nor Single no error is
\* raised and the result is the rows that satisfy stages 1, 2 and 4, with
\* no constraint on RSI from the marital status.
C8_OtherMaritalPassThrough ==
    (marital_status \notin {"Married", "Single"} /\ risk_preference \in Recognised) =>
        /\ raised = "" /\ pc # "raised"
        /\ Len(stages) >= 4 => stages[4] = stages[3]
        /\ Finished =>
              /\ HasFields5
              /\ ResultRows =
                   { Row5(df0[i]) : i \in { j \in 1..Len(df0) :
                       S1(df0[j]) /\ S2(df0[j]) /\ S4(df0[j]) } }

\* rows below and above RSI 50 both come through
C8_Witness ==
    /\ Returned /\ marital_status = "other" /\ risk_preference = "Neutral"
    /\ \E i \in 1..Len(result) : result[i].RSI < 50
    /\ \E i \in 1..Len(result) : result[i].RSI >= 50

\* ---- C9
\* C9: result rows stand in the order of their first occurrence in the
\* input table.
FirstSeen(x) == CHOOSE k \in 1..Len(df0) :
                    /\ Row5(df0[k]) = x
                    /\ \A m \in 1..(k - 1) : Row5(df0[m]) # x

C9_FirstSeenOrder ==
    Returned =>
        /\ ResultRows \subseteq InputRows
        /\ \A i, j \in 1..Len(result) : i < j =>
              FirstSeen(Tuple5(result[i])) < FirstSeen(Tuple5(result[j]))

\* input A, B, A with A and B both passing: the result is A, B
C9_Witness ==
    /\ Returned /\ Len(df0) = 3 /\ Len(result) = 2
    /\ Row5(df0[1]) = Row5(df0[3]) /\ Row5(df0[1]) # Row5(df0[2])
    /\ Tuple5(result[1]) = Row5(df0[1])

\* ---- C10
\* C10: with recognised risk preference and marital status, a non-empty
\* result needs the asset-size bracket and the expected-return bracket to be
\* the same, and the profile to be one of six combinations.
AssetBracket ==
    IF asset_size < 100000 THEN "low"
    ELSE IF asset_size < 1000000 THEN "mid" ELSE "high"
ReturnBracket ==
    IF expected_return < 5 THEN "low"
    ELSE IF expected_return < 10 THEN "mid" ELSE "high"

SixProfiles ==
    { <<"Averse", "Married", "low">>, <<"Averse", "Married", "mid">>,
      <<"Neutral", "Married", "mid">>, <<"Neutral", "Single", "mid">>,
      <<"Seeking", "Single", "mid">>, <<"Seeking", "Single", "high">> }

C10_NonEmptyOnlyForSixProfiles ==
    (Returned /\ marital_status \in {"Married", "Single"} /\ result # <<>>) =>
        /\ AssetBracket = ReturnBracket
        /\ <<risk_preference, marital_status, AssetBracket>> \in SixProfiles

C10_Witness ==
    /\ Returned /\ result # <<>>
    /\ risk_preference = "Seeking" /\ marital_status = "Single"
    /\ AssetBracket = "high" /\ ReturnBracket = "high"

====
